---- MODULE Spec2Model ----
(***************************************************************************)
(* Model of the hitavada crossword downloader.                             *)
(*                                                                         *)
(*   - parser/mod.rs : parse_coords and get_target_rect (pure functions)   *)
(*   - crossword/mod.rs : download_crossword (the page-search driver)      *)
(*   - main.rs : handler, and its own copies of the matcher and the driver *)
(*   - drive/mod.rs : get_google_credentials                               *)
(*                                                                         *)
(* Strings that the code parses are sequences of one-character strings, so *)
(* that split / trim / parse::<i32> are computed character by character.   *)
(* An Option<T> is a sequence: <<>> is None and <<v>> is Some(v).          *)
(* A parsed HTML document is the sequence of its elements in document      *)
(* order (the order scraper's select() iterates in).                       *)
(***************************************************************************)
EXTENDS Integers, Sequences, FiniteSets, TLC

None == <<>>
Some(v) == <<v>>

(***************************************************************************)
(* i32 arithmetic (types/mod.rs: the fields of Rect are i32).              *)
(***************************************************************************)
I32Max == 2147483647
I32Min == (0 - I32Max) - 1

\* a - b on i32, wrapping modulo 2^32 (a build without overflow checks); written
\* so that no intermediate value leaves the i32 range
SubI32(a, b) ==
    IF b > 0 /\ a < I32Min + b THEN I32Max - ((b - 1) - (a - I32Min))
    ELSE IF b < 0 /\ a > I32Max + b THEN I32Min + ((a - (I32Max + b)) - 1)
    ELSE a - b

\* i32::abs, wrapping: abs(i32::MIN) = i32::MIN
AbsI32(a) == IF a = I32Min THEN I32Min ELSE IF a < 0 THEN 0 - a ELSE a

(***************************************************************************)
(* Characters and str helpers used by parse_coords.                        *)
(***************************************************************************)
DigitChars == <<"0", "1", "2", "3", "4", "5", "6", "7", "8", "9">>

IsDigit(c) == \E d \in 1..10 : DigitChars[d] = c

DigitVal(c) == (CHOOSE d \in 1..10 : DigitChars[d] = c) - 1

\* char::is_whitespace, on the characters the inputs use
IsSpace(c) == c \in {" ", "\t", "\n"}

\* str::split(','): one more token than there are commas; "" gives one empty token
RECURSIVE SplitFrom(_, _, _)
SplitFrom(s, i, cur) ==
    IF i > Len(s) THEN <<cur>>
    ELSE IF s[i] = "," THEN <<cur>> \o SplitFrom(s, i + 1, <<>>)
    ELSE SplitFrom(s, i + 1, Append(cur, s[i]))

SplitComma(s) == SplitFrom(s, 1, <<>>)

RECURSIVE TrimStart(_)
TrimStart(s) ==
    IF s # <<>> /\ IsSpace(Head(s)) THEN TrimStart(Tail(s)) ELSE s

RECURSIVE TrimEnd(_)
TrimEnd(s) ==
    IF s # <<>> /\ IsSpace(s[Len(s)]) THEN TrimEnd(SubSeq(s, 1, Len(s) - 1)) ELSE s

\* str::trim
Trim(s) == TrimEnd(TrimStart(s))

\* the digit loop of i32::from_str: checked_mul(10) then checked_add (positive)
\* or checked_sub (negative); the range test is made before the arithmetic
RECURSIVE ParseDigits(_, _, _)
ParseDigits(ds, acc, positive) ==
    IF ds = <<>> THEN Some(acc)
    ELSE IF ~IsDigit(Head(ds)) THEN None
    ELSE LET d == DigitVal(Head(ds))
         IN  IF positive
             THEN IF acc > (I32Max - d) \div 10 THEN None
                  ELSE ParseDigits(Tail(ds), acc * 10 + d, positive)
             ELSE IF acc = I32Min THEN None
                  ELSE IF (0 - acc) > (I32Max - (IF d = 0 THEN 0 ELSE d - 1)) \div 10
                  THEN None
                  ELSE ParseDigits(Tail(ds), acc * 10 - d, positive)

\* str::parse::<i32>().ok(): optional sign, then at least one digit, in range
ParseI32(s) ==
    IF s = <<>> THEN None
    ELSE IF Head(s) \in {"+", "-"}
         THEN IF Len(s) = 1 THEN None
              ELSE ParseDigits(Tail(s), 0, Head(s) = "+")
         ELSE ParseDigits(s, 0, TRUE)

\* .filter_map(|s| s.trim().parse::<i32>().ok()).collect()
RECURSIVE FilterMapParse(_)
FilterMapParse(tokens) ==
    IF tokens = <<>> THEN <<>>
    ELSE ParseI32(Trim(Head(tokens))) \o FilterMapParse(Tail(tokens))

Rect(a, b, c, d) == [x1 |-> a, y1 |-> b, x2 |-> c, y2 |-> d]

\* split, keep the tokens that parse, and require four of them
parse_coords(coords_str) ==
    LET parts == FilterMapParse(SplitComma(coords_str))
    IN  IF Len(parts) = 4
        THEN Some(Rect(parts[1], parts[2], parts[3], parts[4]))
        ELSE None

(***************************************************************************)
(* get_target_rect.                                                        *)
(***************************************************************************)
tolerance_x1 == 5
tolerance_y1 == 50
tolerance_x2 == 10
tolerance_y2 == 50
RefX1 == 0
RefY1 == 1625
RefX2 == 1000
RefY2 == 2775

\* mutant: strict comparisons (the tolerance boundary is excluded)
InToleranceStrict(rect) ==
    /\ AbsI32(SubI32(rect.x1, RefX1)) < tolerance_x1
    /\ AbsI32(SubI32(rect.y1, RefY1)) < tolerance_y1
    /\ AbsI32(SubI32(rect.x2, RefX2)) < tolerance_x2
    /\ AbsI32(SubI32(rect.y2, RefY2)) < tolerance_y2

\* x1_in_range && y1_in_range && x2_in_range && y2_in_range
InTolerance(rect) ==
    /\ AbsI32(SubI32(rect.x1, RefX1)) <= tolerance_x1
    /\ AbsI32(SubI32(rect.y1, RefY1)) <= tolerance_y1
    /\ AbsI32(SubI32(rect.x2, RefX2)) <= tolerance_x2
    /\ AbsI32(SubI32(rect.y2, RefY2)) <= tolerance_y2

\* the closure given to find_map: Some(href) or None for one area element
AreaHref(area) ==
    IF area.coords = None THEN None
    ELSE LET rect == parse_coords(area.coords[1])
         IN  IF rect = None THEN None
             ELSE IF InTolerance(rect[1]) THEN area.href
             ELSE None

\* document.select(&Selector::parse(tag)): the elements of that tag, document order
SelectTag(document, tag) == SelectSeq(document, LAMBDA e : e.tag = tag)

\* mutant: the scan stops at the first area whose coords are absent or unparseable
RECURSIVE FindMapAbortOnBad(_)
FindMapAbortOnBad(areas) ==
    IF areas = <<>> THEN None
    ELSE IF Head(areas).coords = None THEN None
    ELSE IF parse_coords(Head(areas).coords[1]) = None THEN None
    ELSE LET r == AreaHref(Head(areas))
         IN  IF r # None THEN r ELSE FindMapAbortOnBad(Tail(areas))

\* mutant: a matching area without href ends the scan with None
RECURSIVE FindMapStopAtLinkless(_)
FindMapStopAtLinkless(areas) ==
    IF areas = <<>> THEN None
    ELSE LET a == Head(areas)
             rect == IF a.coords = None THEN None ELSE parse_coords(a.coords[1])
         IN  IF rect # None /\ InTolerance(rect[1]) THEN a.href
             ELSE FindMapStopAtLinkless(Tail(areas))

\* mutant: the last area for which the closure gives Some wins
RECURSIVE FindMapLast(_)
FindMapLast(areas) ==
    IF areas = <<>> THEN None
    ELSE LET r == AreaHref(areas[Len(areas)])
         IN  IF r # None THEN r ELSE FindMapLast(SubSeq(areas, 1, Len(areas) - 1))

\* Iterator::find_map: the first Some the closure gives, in iteration order
RECURSIVE FindMap(_)
FindMap(areas) ==
    IF areas = <<>> THEN None
    ELSE LET r == AreaHref(Head(areas))
         IN  IF r # None THEN r ELSE FindMap(Tail(areas))

get_target_rect(html) == FindMap(SelectTag(html, "area"))

\* main.rs has its own copy of the matcher, without a tolerance on x1:
\* rect.x1 == 0 && y1_in_range && x2_in_range && y2_in_range
InToleranceMain(rect) ==
    /\ rect.x1 = 0
    /\ AbsI32(SubI32(rect.y1, RefY1)) <= tolerance_y1
    /\ AbsI32(SubI32(rect.x2, RefX2)) <= tolerance_x2
    /\ AbsI32(SubI32(rect.y2, RefY2)) <= tolerance_y2

AreaHrefMain(area) ==
    IF area.coords = None THEN None
    ELSE LET rect == parse_coords(area.coords[1])
         IN  IF rect = None THEN None
             ELSE IF InToleranceMain(rect[1]) THEN area.href
             ELSE None

RECURSIVE FindMapMain(_)
FindMapMain(areas) ==
    IF areas = <<>> THEN None
    ELSE LET r == AreaHrefMain(Head(areas))
         IN  IF r # None THEN r ELSE FindMapMain(Tail(areas))

main_get_target_rect(html) == FindMapMain(SelectTag(html, "area"))

\* a - b leaves the i32 range
SubOverflows(a, b) ==
    \/ b > 0 /\ a < I32Min + b
    \/ b < 0 /\ a > I32Max + b

\* (coord - reference).abs() in a build with overflow checks: the subtraction
\* or the abs of i32::MIN panics
DeviationPanics(coord, reference) ==
    SubOverflows(coord, reference) \/ SubI32(coord, reference) = I32Min

\* the four let bindings are evaluated before the if
RectPanics(rect) ==
    \/ DeviationPanics(rect.x1, RefX1)
    \/ DeviationPanics(rect.y1, RefY1)
    \/ DeviationPanics(rect.x2, RefX2)
    \/ DeviationPanics(rect.y2, RefY2)

\* main.rs computes no deviation of x1
RectPanicsMain(rect) ==
    \/ DeviationPanics(rect.y1, RefY1)
    \/ DeviationPanics(rect.x2, RefX2)
    \/ DeviationPanics(rect.y2, RefY2)

\* the checks on the rectangle of this area panic (main: in main.rs)
AreaPanics(area, main) ==
    /\ area.coords # None
    /\ parse_coords(area.coords[1]) # None
    /\ IF main THEN RectPanicsMain(parse_coords(area.coords[1])[1])
       ELSE RectPanics(parse_coords(area.coords[1])[1])

\* find_map reaches an area on which the checks panic: no area before it was
\* accepted by the closure
PanicsOn(areas, main) ==
    \E i \in 1..Len(areas) :
        /\ AreaPanics(areas[i], main)
        /\ \A j \in 1..(i - 1) :
              IF main THEN AreaHrefMain(areas[j]) = None
              ELSE AreaHref(areas[j]) = None

\* what a call of get_target_rect (parser/mod.rs) does in the given build:
\* without overflow checks the arithmetic wraps, with them it panics
Outcome(checks, html) ==
    LET areas == SelectTag(html, "area")
        panic == checks /\ PanicsOn(areas, FALSE)
    IN  [panic |-> panic,
         out |-> IF panic THEN None ELSE get_target_rect(html)]

\* the same for get_target_rect of main.rs
OutcomeMain(checks, html) ==
    LET areas == SelectTag(html, "area")
        panic == checks /\ PanicsOn(areas, TRUE)
    IN  [panic |-> panic,
         out |-> IF panic THEN None ELSE main_get_target_rect(html)]

(***************************************************************************)
(* Inputs of the matcher.  An input is described by its tokens (the text   *)
(* between commas, and the integer the text denotes if it denotes one);    *)
(* the matcher only ever sees the rendered attribute string.               *)
(***************************************************************************)
RECURSIVE DecNat(_)
DecNat(n) ==
    IF n < 10 THEN <<DigitChars[n + 1]>>
    ELSE DecNat(n \div 10) \o <<DigitChars[(n % 10) + 1]>>

\* the decimal text of an integer, as written in a coords attribute
Dec(n) == IF n < 0 THEN <<"-">> \o DecNat(0 - n) ELSE DecNat(n)

IntTok(n) == [text |-> Dec(n), val |-> Some(n)]
PadTok(n) == [text |-> <<" ">> \o Dec(n) \o <<" ">>, val |-> Some(n)]
PlusTok(n) == [text |-> <<"+">> \o Dec(n), val |-> Some(n)]
JunkTok(chars) == [text |-> chars, val |-> None]

\* the tokens joined by commas
RECURSIVE Csv(_)
Csv(tokens) ==
    IF tokens = <<>> THEN <<>>
    ELSE IF Len(tokens) = 1 THEN tokens[1].text
    ELSE tokens[1].text \o <<",">> \o Csv(Tail(tokens))

\* an element as scraper exposes it: its tag and its coords / href attributes
Element(desc) ==
    [tag |-> desc.tag,
     coords |-> IF desc.coords = None THEN None ELSE Some(Csv(desc.coords[1])),
     href |-> desc.href]

RenderHtml(elems) == [i \in 1..Len(elems) |-> Element(elems[i])]

Ints4(a, b, c, d) == <<IntTok(a), IntTok(b), IntTok(c), IntTok(d)>>

AreaDesc(toks, href) == [tag |-> "area", coords |-> Some(toks), href |-> href]

\* the integers a token list denotes, in order (tokens denoting none are dropped)
RECURSIVE TokenInts(_)
TokenInts(tokens) ==
    IF tokens = <<>> THEN <<>>
    ELSE tokens[1].val \o TokenInts(Tail(tokens))

\* the region elements of the repository's tests and of the spec's edge cases
AreaExact == AreaDesc(Ints4(0, 1625, 1000, 2775), Some("test1"))
AreaNear == AreaDesc(Ints4(4, 1672, 997, 2778), Some("test12"))
AreaNoHref == AreaDesc(Ints4(0, 1670, 1001, 2764), None)
AreaFar == AreaDesc(Ints4(0, 100, 500, 1000), Some("test5"))
AreaInvalid == AreaDesc(<<JunkTok(<<"i", "n", "v", "a", "l", "i", "d">>)>>, Some("test8"))
AreaThree == AreaDesc(<<IntTok(0), IntTok(1625), IntTok(1000)>>, Some("test9"))
AreaNoCoords == [tag |-> "area", coords |-> None, href |-> Some("nocoords")]
AreaAbsolute == AreaDesc(Ints4(0, 1625, 1000, 2775), Some("https://example.org/x"))
OtherTag == [tag |-> "map", coords |-> Some(Ints4(0, 1625, 1000, 2775)), href |-> Some("map")]

ElemDescs ==
    {AreaExact, AreaNear, AreaNoHref, AreaFar, AreaInvalid, AreaThree,
     AreaNoCoords, OtherTag}

MaxElems == 3
MaxTokens == 5

SeqsUpTo(S, n) == UNION {[1..k -> S] : k \in 0..n}

HtmlInputs == SeqsUpTo(ElemDescs, MaxElems)

\* single-region markups around every tolerance boundary
X1Vals == {-6, -5, 0, 5, 6, 10}
Y1Vals == {1574, 1575, 1625, 1675, 1676}
X2Vals == {989, 990, 1000, 1010, 1011}
Y2Vals == {2724, 2725, 2775, 2825, 2826}

SingleInputs ==
    {<<AreaDesc(Ints4(a, b, c, d), Some("link"))>> :
        a \in X1Vals, b \in Y1Vals, c \in X2Vals, d \in Y2Vals}

CoordTokens ==
    {IntTok(7), PadTok(-5), PlusTok(3), JunkTok(<<"x">>), JunkTok(<<>>),
     JunkTok(<<"2", "1", "4", "7", "4", "8", "3", "6", "4", "8">>)}

CoordInputs == SeqsUpTo(CoordTokens, MaxTokens)

(***************************************************************************)
(* State.                                                                  *)
(***************************************************************************)
VARIABLES
    p_pc,       \* "idle" | "call" | "ret": a call of a parser function
    p_fn,       \* "parse_coords" | "get_target_rect" | "none"
    p_in,       \* the input's description (token list or element list)
    p_out,      \* the Option the function returned
    p_checks,   \* the build: TRUE with overflow checks (debug), FALSE without
    p_panic,    \* the call panicked instead of returning
    pc,         \* the await download_crossword is suspended at, or "done"
    page,       \* the loop variable of `for page in 1..=20`
    result,     \* None while running, then the Result that was returned
    posts,      \* the POST requests issued, in order
    gets,       \* the GET requests issued, in order
    inflight,   \* requests sent whose send() has not returned yet
    received,   \* pages whose discovery body was read, in order
    nomatch,    \* pages on whose body get_target_rect returned None
    last_body,  \* the discovery body read last (its description)
    href,       \* the Option get_target_rect returned on the matching page
    steps,      \* what the matched branch has done so far, in order
    fault,      \* the failure the environment produced, if any
    variant,    \* "crossword": crossword::download_crossword,
                \* "main": the entrypoint's handler and its own copy
    payload,    \* event.payload.date: None or Some(text)
    today,      \* what Local::now().date_naive() answers
    date,       \* the target date of the run, None until it is resolved
    writes,     \* the paths fs::write was called with, in order
    disk,       \* the local file: "absent" | "partial" | "complete"
    uploads,    \* the paths upload_to_drive was called with, in order
    last_doc,   \* the crossword page body read last (its description)
    statuses,   \* kinds of response that came with an error status
    g_pc,       \* get_google_credentials: "idle" | "call" | the await | "ret"
    g_env,      \* the environment variable GOOGLE_SERVICE_ACCOUNT_PATH
    g_fs,       \* the readable files: path -> content
    g_ssm,      \* what the parameter store answers to get_parameter
    g_used,     \* the sources consulted by the call, in order
    g_out       \* None, then the Result the call returned

pvars == <<p_pc, p_fn, p_in, p_out, p_checks, p_panic>>

\* the parameters of a run: only the handler's first step sets them
rvars == <<variant, payload, today, date>>

\* the local file system and the upload service as the run touches them
fvars == <<writes, disk, uploads>>

dvars == <<pc, page, result, posts, gets, inflight, received, nomatch,
           last_body, href, steps, fault, rvars, fvars, last_doc, statuses>>

gvars == <<g_pc, g_env, g_fs, g_ssm, g_used, g_out>>

vars == <<pvars, dvars, gvars>>

CredsIdle ==
    /\ g_pc = "idle"
    /\ g_env = None
    /\ g_fs = <<>>
    /\ g_ssm = None
    /\ g_used = <<>>
    /\ g_out = None

ParserIdle ==
    /\ p_pc = "idle"
    /\ p_fn = "none"
    /\ p_in = <<>>
    /\ p_out = None
    /\ p_checks = FALSE
    /\ p_panic = FALSE

DriverIdle ==
    /\ pc = "idle"
    /\ page = 0
    /\ result = None
    /\ posts = <<>>
    /\ gets = <<>>
    /\ inflight = 0
    /\ received = <<>>
    /\ nomatch = {}
    /\ last_body = None
    /\ href = None
    /\ steps = <<>>
    /\ fault = None
    /\ variant = "none"
    /\ payload = None
    /\ today = None
    /\ date = None
    /\ writes = <<>>
    /\ disk = "absent"
    /\ uploads = <<>>
    /\ last_doc = None
    /\ statuses = {}

InitParser ==
    /\ DriverIdle
    /\ CredsIdle
    /\ p_pc = "call"
    /\ p_out = None
    /\ p_checks \in BOOLEAN
    /\ p_panic = FALSE
    /\ \/ p_fn = "parse_coords" /\ p_in \in CoordInputs
       \/ p_fn = "get_target_rect" /\ p_in \in (HtmlInputs \cup SingleInputs)

CallParseCoords ==
    /\ p_pc = "call"
    /\ p_fn = "parse_coords"
    /\ p_out' = parse_coords(Csv(p_in))
    /\ p_pc' = "ret"
    /\ UNCHANGED <<p_fn, p_in, p_checks, p_panic, dvars, gvars>>

CallGetTargetRect ==
    /\ p_pc = "call"
    /\ p_fn = "get_target_rect"
    /\ LET o == Outcome(p_checks, RenderHtml(p_in))
       IN  p_out' = o.out /\ p_panic' = o.panic
    /\ p_pc' = "ret"
    /\ UNCHANGED <<p_fn, p_in, p_checks, dvars, gvars>>

NextParser == CallParseCoords \/ CallGetTargetRect

SpecParser == InitParser /\ [][NextParser]_vars

(***************************************************************************)
(* The matchers on coordinates of the whole i32 range, in both builds.     *)
(***************************************************************************)
\* the text of i32::MIN is written out: its absolute value is no i32
WideTok(n) ==
    IF n = I32Min
    THEN [text |-> <<"-", "2", "1", "4", "7", "4", "8", "3", "6", "4", "8">>,
          val |-> Some(n)]
    ELSE IntTok(n)

WideX1 == {I32Min, I32Min + 1, 0 - 6, 0 - 5, 0, 5, 6, I32Max}
WideY1 == {I32Min, I32Min + 1624, I32Min + 1625, I32Min + 1626, 1575, 1625,
           1676, I32Max}
WideX2 == {I32Min + 1000, 1000, I32Max}
WideY2 == {I32Min + 2775, 2775, I32Max}

\* one area with a link, its coordinates anywhere in the i32 range
WideInputs ==
    {<<AreaDesc(<<WideTok(a), WideTok(b), WideTok(c), WideTok(d)>>,
                Some("wide"))>> :
        a \in WideX1, b \in WideY1, c \in WideX2, d \in WideY2}

InitWide ==
    /\ DriverIdle
    /\ CredsIdle
    /\ p_pc = "call"
    /\ p_out = None
    /\ p_checks \in BOOLEAN
    /\ p_panic = FALSE
    /\ p_fn \in {"get_target_rect", "main_get_target_rect"}
    /\ p_in \in WideInputs

\* a call of the copy of the matcher in main.rs
CallMainGetTargetRect ==
    /\ p_pc = "call"
    /\ p_fn = "main_get_target_rect"
    /\ LET o == OutcomeMain(p_checks, RenderHtml(p_in))
       IN  p_out' = o.out /\ p_panic' = o.panic
    /\ p_pc' = "ret"
    /\ UNCHANGED <<p_fn, p_in, p_checks, dvars, gvars>>

NextWide == CallGetTargetRect \/ CallMainGetTargetRect

SpecWide == InitWide /\ [][NextWide]_vars

(***************************************************************************)
(* download_crossword (crossword/mod.rs).                                  *)
(*                                                                         *)
(* The function is one async body; an action is the code that runs from    *)
(* the return of one await to the suspension at the next one (or to the    *)
(* return of the function).  What an external call returns is chosen by    *)
(* the environment: a transport error or a body, a write that succeeds or  *)
(* fails, and so on.                                                       *)
(***************************************************************************)
mapping_url == "https://www.ehitavada.com/val.php"
BaseUrl == "https://www.ehitavada.com/"
MaxPagesShort == 20 - 1
MaxPages == 20

\* chrono::NaiveDate: a date of the proleptic Gregorian calendar
Date(y, m, d) == [y |-> y, m |-> m, d |-> d]

IsLeap(y) == (y % 4 = 0 /\ y % 100 # 0) \/ y % 400 = 0

DaysIn(y, m) ==
    IF m = 2 THEN (IF IsLeap(y) THEN 29 ELSE 28)
    ELSE IF m \in {4, 6, 9, 11} THEN 30 ELSE 31

IsValidDate(y, m, d) == m >= 1 /\ m <= 12 /\ d >= 1 /\ d <= DaysIn(y, m)

\* the characters of a text, as one string
RECURSIVE Str(_)
Str(chars) == IF chars = <<>> THEN "" ELSE chars[1] \o Str(Tail(chars))

\* digits padded with zeros on the left to at least w characters
RECURSIVE ZeroPad(_, _)
ZeroPad(chars, w) ==
    IF Len(chars) >= w THEN chars ELSE ZeroPad(<<"0">> \o chars, w)

\* %Y: four digits for the years 0..9999, otherwise a sign and at least
\* four digits ("{:+05}")
FormatYear(y) ==
    IF y >= 0 /\ y <= 9999 THEN ZeroPad(DecNat(y), 4)
    ELSE IF y < 0 THEN <<"-">> \o ZeroPad(DecNat(0 - y), 4)
    ELSE <<"+">> \o ZeroPad(DecNat(y), 4)

\* date.format("%Y-%m-%d").to_string()
FormatDate(d) ==
    FormatYear(d.y) \o <<"-">> \o ZeroPad(DecNat(d.m), 2) \o <<"-">>
        \o ZeroPad(DecNat(d.d), 2)

\* the number of leading digits of s, at most max
RECURSIVE LeadingDigits(_, _)
LeadingDigits(s, max) ==
    IF max = 0 \/ s = <<>> \/ ~IsDigit(s[1]) THEN 0
    ELSE 1 + LeadingDigits(Tail(s), max - 1)

RECURSIVE DigitsVal(_)
DigitsVal(s) ==
    IF s = <<>> THEN 0
    ELSE 10 * DigitsVal(SubSeq(s, 1, Len(s) - 1)) + DigitVal(s[Len(s)])

\* chrono's scan::number(s, 1, max): one to max digits, and the rest
ScanNumber(s, max) ==
    LET n == LeadingDigits(s, max)
    IN  IF n = 0 THEN None
        ELSE Some([val |-> DigitsVal(SubSeq(s, 1, n)),
                   rest |-> SubSeq(s, n + 1, Len(s))])

\* a numeric item of the format: leading white space is skipped; only the
\* year may carry a sign, and a signed year may have any number of digits
ScanItem(s, width, signed) ==
    LET t == TrimStart(s)
    IN  IF signed /\ t # <<>> /\ t[1] \in {"-", "+"}
        THEN LET n == ScanNumber(Tail(t), Len(t))
             IN  IF n = None THEN None
                 ELSE Some([val |-> IF t[1] = "-" THEN 0 - n[1].val
                                    ELSE n[1].val,
                            rest |-> n[1].rest])
        ELSE ScanNumber(t, width)

\* a literal of the format: the next character must be this one
ScanLiteral(s, c) ==
    IF s # <<>> /\ s[1] = c THEN Some(Tail(s)) ELSE None

\* NaiveDate::parse_from_str(s, "%Y-%m-%d"): None stands for Err(_)
ParseDate(s) ==
    LET y == ScanItem(s, 4, TRUE)
    IN  IF y = None THEN None ELSE
        LET s1 == ScanLiteral(y[1].rest, "-")
        IN  IF s1 = None THEN None ELSE
        LET m == ScanItem(s1[1], 2, FALSE)
        IN  IF m = None THEN None ELSE
        LET s2 == ScanLiteral(m[1].rest, "-")
        IN  IF s2 = None THEN None ELSE
        LET d == ScanItem(s2[1], 2, FALSE)
        IN  IF d = None THEN None
            ELSE IF d[1].rest # <<>> THEN None
            ELSE IF ~IsValidDate(y[1].val, m[1].val, d[1].val) THEN None
            ELSE Some(Date(y[1].val, m[1].val, d[1].val))

\* the date the tests of download_crossword use
TargetDate == Date(2024, 3, 20)

\* let date_str = date.format("%Y-%m-%d").to_string()
date_str == FormatDate(date[1])

\* &date_str_slice[a..b]
Slice(text, a, b) == SubSeq(text, a + 1, b)

\* the form body of the discovery request for page p
mapping_data(d, p) ==
    LET date_str_slice == FormatDate(d)
    IN  [get_mapping_coords |->
             "https%3A%2F%2Fehitavada.com%2Fencyc%2F6%2F"
                 \o Str(Slice(date_str_slice, 0, 4))
                 \o Str(Slice(date_str_slice, 5, 7))
                 \o Str(Slice(date_str_slice, 8, 10))
                 \o "%2FMpage_" \o Str(DecNat(p)) \o ".jpg",
         get_mapping_coords_date |-> Str(FormatDate(d)),
         get_mapping_coords_prefix |-> "Mpage",
         get_mapping_coords_page |-> Str(DecNat(p))]

\* mutant: the page that matched is part of the file name
filename_per_page ==
    "/tmp/crossword_" \o Str(date_str) \o "_" \o Str(DecNat(page)) \o ".jpg"

\* let filename = format!("/tmp/crossword_{}.jpg", date_str)
filename == "/tmp/crossword_" \o Str(date_str) \o ".jpg"

Err(msg) == [ok |-> FALSE, error |-> msg]
Ok(v) == [ok |-> TRUE, value |-> v]
NotFoundError == Err("Could not find crossword on any page")

\* discovery response bodies the site may send
DiscoveryBodies ==
    {<<>>,
     <<AreaFar>>,
     <<AreaInvalid, AreaThree>>,
     <<AreaNoHref>>,
     <<AreaExact>>,
     <<AreaAbsolute>>,
     <<AreaFar, AreaNoHref, AreaNear, AreaExact>>}

ImgIn(src) == [tag |-> "img", container |-> TRUE, src |-> src]
ImgOut(src) == [tag |-> "img", container |-> FALSE, src |-> src]

\* crossword page bodies the site may send
PageBodies ==
    {<<>>,
     <<ImgOut(Some("images/other.jpg"))>>,
     <<ImgIn(None), ImgIn(Some("images/foo.jpg"))>>,
     <<ImgIn(Some("images/not_found.png"))>>,
     <<ImgOut(Some("images/other.jpg")), ImgIn(Some("images/foo.jpg")),
       ImgIn(Some("images/bar.jpg"))>>}

\* crossword_document.select(".slices_container img"), document order
SelectImg(document) ==
    SelectSeq(document, LAMBDA e : e.tag = "img" /\ e.container)

\* the steps of the matched branch, in the order the code performs them
FullSteps ==
    <<"get_page", "page_ok", "extract_ok", "get_image", "image_ok",
      "write_ok", "creds_call", "creds_ok", "upload_call", "upload_ok",
      "return_ok">>

\* the `?` operator: the error is returned to the caller at once
Propagate(msg) ==
    /\ result' = Some(Err(msg))
    /\ pc' = "done"
    /\ UNCHANGED <<page, posts, gets, href, nomatch, steps>>

\* client.post(mapping_url)...send() for page p
SendPost(d, p) ==
    /\ page' = p
    /\ posts' = Append(posts, [url |-> mapping_url, page |-> p,
                               data |-> mapping_data(d, p)])
    /\ pc' = "post_send"

\* entry: create_headers()?, then the first iteration up to its send().await
Begin(d) ==
    /\ SendPost(d, 1)
    /\ UNCHANGED <<result, gets, href, nomatch, steps>>

\* a send().await returned Ok: go on to the next await
Continue(next, done) ==
    /\ pc' = next
    /\ steps' = steps \o done
    /\ UNCHANGED <<page, result, posts, gets, href, nomatch>>

\* mutant: after a match the next page is requested as well
OnMatchKeepScanning(r) ==
    /\ href' = r
    /\ gets' = Append(gets, BaseUrl \o r[1])
    /\ steps' = Append(steps, "get_page")
    /\ posts' = Append(posts, [url |-> mapping_url, page |-> page + 1,
                               data |-> mapping_data(date[1], page + 1)])
    /\ pc' = "page_send"
    /\ UNCHANGED <<page, result, nomatch>>

\* mutant: the link reference is requested as it is, without the site
OnMatchBareHref(r) ==
    /\ href' = r
    /\ gets' = Append(gets, r[1])
    /\ steps' = Append(steps, "get_page")
    /\ pc' = "page_send"
    /\ UNCHANGED <<page, result, posts, nomatch>>

\* if let Some(href) = ...: build crossword_url, client.get(..).send()
OnMatch(r) ==
    /\ href' = r
    /\ gets' = Append(gets, BaseUrl \o r[1])
    /\ steps' = Append(steps, "get_page")
    /\ pc' = "page_send"
    /\ UNCHANGED <<page, result, posts, nomatch>>

\* mutant: the same page is requested again after a no-match
OnNoMatchSamePage ==
    /\ nomatch' = nomatch \cup {page}
    /\ IF Len(posts) < MaxPages
       THEN SendPost(date[1], page) /\ UNCHANGED result
       ELSE /\ result' = Some(NotFoundError)
            /\ pc' = "done"
            /\ UNCHANGED <<page, posts>>
    /\ UNCHANGED <<gets, href, steps>>

\* no match: next iteration of the loop, or the error after the loop
OnNoMatch ==
    /\ nomatch' = nomatch \cup {page}
    /\ IF page < MaxPages
       THEN SendPost(date[1], page + 1) /\ UNCHANGED result
       ELSE /\ result' = Some(NotFoundError)
            /\ pc' = "done"
            /\ UNCHANGED <<page, posts>>
    /\ UNCHANGED <<gets, href, steps>>

\* the code after mapping_response.text().await returned Ok(mapping_html)
OnMappingHtml(html) ==
    LET r == IF variant = "main" THEN main_get_target_rect(html)
             ELSE get_target_rect(html)
    IN  IF r # None THEN OnMatch(r) ELSE OnNoMatch

\* mutant: a missing image or src is taken as "not on this page"
OnCrosswordHtmlTryNext(document) ==
    LET imgs == SelectImg(document)
    IN  IF imgs = <<>> \/ imgs[1].src = None
        THEN OnNoMatch
        ELSE /\ gets' = Append(gets, BaseUrl \o imgs[1].src[1])
             /\ steps' = steps \o <<"page_ok", "extract_ok", "get_image">>
             /\ pc' = "img_send"
             /\ UNCHANGED <<page, result, posts, href, nomatch>>

\* the code after crossword_response.text().await returned Ok(crossword_html)
OnCrosswordHtml(document) ==
    LET imgs == SelectImg(document)
    IN  IF imgs = <<>> THEN Propagate("Could not find crossword image")
        ELSE IF imgs[1].src = None THEN Propagate("Could not find image source")
        ELSE /\ gets' = Append(gets, BaseUrl \o imgs[1].src[1])
             /\ steps' = steps \o <<"page_ok", "extract_ok", "get_image">>
             /\ pc' = "img_send"
             /\ UNCHANGED <<page, result, posts, href, nomatch>>

\* the code after img_response.bytes().await returned Ok: fs::write(..)?, then
\* the call of get_google_credentials()
OnImageBytes(wrote) ==
    IF wrote
    THEN /\ pc' = "creds"
         /\ steps' = steps \o <<"image_ok", "write_ok", "creds_call">>
         /\ UNCHANGED <<page, result, posts, gets, href, nomatch>>
    ELSE Propagate("write failed")

\* get_google_credentials().await?, then the call of upload_to_drive
OnCredentials(ok) ==
    IF ok
    THEN /\ pc' = "upload"
         /\ steps' = steps \o <<"creds_ok", "upload_call">>
         /\ UNCHANGED <<page, result, posts, gets, href, nomatch>>
    ELSE Propagate("credentials failed")

\* mutant: after a failed upload the search goes on with the next page
OnUploadRescan(ok) ==
    IF ok
    THEN /\ result' = Some(Ok(filename))
         /\ pc' = "done"
         /\ steps' = steps \o <<"upload_ok", "return_ok">>
         /\ UNCHANGED <<page, posts, gets, href, nomatch>>
    ELSE OnNoMatch

\* mutant: the result of the upload is ignored
OnUploadIgnored(ok) ==
    /\ result' = Some(Ok(filename))
    /\ pc' = "done"
    /\ steps' = steps \o <<"upload_ok", "return_ok">>
    /\ UNCHANGED <<page, posts, gets, href, nomatch>>

\* upload_to_drive(..).await?, then return Ok(filename)
OnUpload(ok) ==
    IF ok
    THEN /\ result' = Some(Ok(filename))
         /\ pc' = "done"
         /\ steps' = steps \o <<"upload_ok", "return_ok">>
         /\ UNCHANGED <<page, posts, gets, href, nomatch>>
    ELSE Propagate("upload failed")

\* requests sent by the step being taken
Sent == (Len(posts') - Len(posts)) + (Len(gets') - Len(gets))

\* the status codes a response may carry; the code only prints them
StatusCodes == {200, 404, 500}

\* mutant: a response with an error status is an error
\* (as with error_for_status()?)
OnResponseChecked(status, next) ==
    IF status >= 400 THEN Propagate("error status")
    ELSE Continue(next, <<>>)

\* println!("... response status: {}", response.status()), then go on
OnResponse(status, next) == Continue(next, <<>>)

\* error statuses seen so far, by kind of response
Seen(kind, status) ==
    IF status >= 400 THEN statuses \cup {kind} ELSE statuses

\* mutant: a date text that does not parse is replaced by the local date
ResolveDateOrToday(p, now) ==
    IF p = None \/ ParseDate(p[1].text) = None THEN Some(now)
    ELSE ParseDate(p[1].text)

\* handler (main.rs): Some(date_str) is parsed, None is the local date
ResolveDate(p, now) ==
    IF p = None THEN Some(now) ELSE ParseDate(p[1].text)

\* LambdaOutput { message, filename }
LambdaOutput(path) ==
    [message |-> "Crossword downloaded successfully", filename |-> path]

\* what the handler returns: let filename = download_crossword(date).await?;
\* Ok(LambdaOutput { .. })
handler_result ==
    IF result = None THEN None
    ELSE IF result[1].ok THEN Some(Ok(LambdaOutput(result[1].value)))
    ELSE result

\* a run that has not started: nothing requested, nothing written
Fresh ==
    /\ ParserIdle
    /\ CredsIdle
    /\ page = 0
    /\ result = None
    /\ posts = <<>>
    /\ gets = <<>>
    /\ inflight = 0
    /\ received = <<>>
    /\ nomatch = {}
    /\ last_body = None
    /\ href = None
    /\ steps = <<>>
    /\ fault = None
    /\ writes = <<>>
    /\ disk = "absent"
    /\ uploads = <<>>
    /\ last_doc = None
    /\ statuses = {}

\* crossword::download_crossword(client, date) with the date of its tests
Init ==
    /\ Fresh
    /\ pc = "start"
    /\ variant = "crossword"
    /\ payload = None
    /\ today = TargetDate
    /\ date = Some(TargetDate)

Start ==
    /\ pc = "start"
    /\ Begin(date[1])
    /\ inflight' = inflight + Sent
    /\ UNCHANGED <<received, last_body, fault, rvars, fvars, last_doc,
                   statuses, pvars, gvars>>

\* handler (main.rs): the date is resolved, then download_crossword(date) of
\* main.rs runs up to its first await (the client is built, the headers are
\* made, the first request is sent)
HandlerStart ==
    /\ pc = "handler"
    /\ LET d == ResolveDate(payload, today)
       IN  IF d = None
           THEN /\ date' = None
                /\ fault' = Some("invalid_date")
                /\ Propagate("Invalid date format")
           ELSE /\ date' = d
                /\ \E built \in BOOLEAN :
                      /\ fault' = IF built THEN fault
                                  ELSE Some("client_build")
                      /\ IF built THEN Begin(d[1])
                         ELSE Propagate("client build failed")
    /\ inflight' = inflight + Sent
    /\ UNCHANGED <<received, last_body, variant, payload, today, fvars,
                   last_doc, statuses, pvars, gvars>>

\* client.post(..).send().await returns Ok(response), the response
\* carrying this status
PostResponse(status) ==
    /\ pc = "post_send"
    /\ statuses' = Seen("discovery", status)
    /\ OnResponse(status, "post_text")
    /\ inflight' = (inflight - 1) + Sent
    /\ UNCHANGED <<fault, received, last_body, rvars, fvars, last_doc, pvars, gvars>>

\* client.post(..).send().await returns
PostSendReturns ==
    \/ /\ pc = "post_send"
       /\ fault' = Some("discovery_send")
       /\ Propagate("discovery request failed")
       /\ inflight' = (inflight - 1) + Sent
       /\ UNCHANGED <<statuses, received, last_body, rvars, fvars, last_doc,
                      pvars, gvars>>
    \/ \E status \in StatusCodes : PostResponse(status)

\* mapping_response.text().await returns
PostTextReturns ==
    /\ pc = "post_text"
    /\ \/ /\ fault' = Some("discovery_body")
          /\ Propagate("discovery body unreadable")
          /\ UNCHANGED <<received, last_body>>
       \/ \E body \in DiscoveryBodies :
             /\ received' = Append(received, page)
             /\ last_body' = Some(body)
             /\ OnMappingHtml(RenderHtml(body))
             /\ UNCHANGED fault
    /\ inflight' = inflight + Sent
    /\ UNCHANGED <<rvars, fvars, last_doc, statuses, pvars, gvars>>

\* client.get(&crossword_url).send().await returns Ok(response), the response
\* carrying this status
PageResponse(status) ==
    /\ pc = "page_send"
    /\ statuses' = Seen("page", status)
    /\ OnResponse(status, "page_text")
    /\ inflight' = (inflight - 1) + Sent
    /\ UNCHANGED <<fault, received, last_body, rvars, fvars, last_doc, pvars, gvars>>

\* client.get(&crossword_url).send().await returns
PageSendReturns ==
    \/ /\ pc = "page_send"
       /\ fault' = Some("page_send")
       /\ Propagate("crossword page request failed")
       /\ inflight' = (inflight - 1) + Sent
       /\ UNCHANGED <<statuses, received, last_body, rvars, fvars, last_doc,
                      pvars, gvars>>
    \/ \E status \in StatusCodes : PageResponse(status)

\* crossword_response.text().await returns
PageTextReturns ==
    /\ pc = "page_text"
    /\ \/ /\ fault' = Some("page_body")
          /\ Propagate("crossword page body unreadable")
          /\ UNCHANGED last_doc
       \/ \E document \in PageBodies :
             /\ fault' = LET imgs == SelectImg(document)
                         IN  IF imgs = <<>> THEN Some("no_image")
                             ELSE IF imgs[1].src = None THEN Some("no_src")
                             ELSE fault
             /\ last_doc' = Some(document)
             /\ OnCrosswordHtml(document)
    /\ inflight' = inflight + Sent
    /\ UNCHANGED <<received, last_body, rvars, fvars, statuses, pvars, gvars>>

\* client.get(&img_url).send().await returns Ok(response), the response
\* carrying this status
ImgResponse(status) ==
    /\ pc = "img_send"
    /\ statuses' = Seen("image", status)
    /\ OnResponse(status, "img_bytes")
    /\ inflight' = (inflight - 1) + Sent
    /\ UNCHANGED <<fault, received, last_body, rvars, fvars, last_doc, pvars, gvars>>

\* client.get(&img_url).send().await returns
ImgSendReturns ==
    \/ /\ pc = "img_send"
       /\ fault' = Some("image_send")
       /\ Propagate("image request failed")
       /\ inflight' = (inflight - 1) + Sent
       /\ UNCHANGED <<statuses, received, last_body, rvars, fvars, last_doc,
                      pvars, gvars>>
    \/ \E status \in StatusCodes : ImgResponse(status)

\* img_response.bytes().await returns; fs::write(&filename, img_data) is
\* synchronous: it leaves the whole file, or fails and may leave a part of it
ImgBytesReturns ==
    /\ pc = "img_bytes"
    /\ \/ /\ fault' = Some("image_body")
          /\ Propagate("image body unreadable")
          /\ UNCHANGED <<writes, disk>>
       \/ \E wrote \in BOOLEAN :
             /\ fault' = IF wrote THEN fault ELSE Some("write")
             /\ writes' = Append(writes, filename)
             /\ IF wrote THEN disk' = "complete"
                ELSE disk' \in {"absent", "partial"}
             /\ OnImageBytes(wrote)
    /\ inflight' = inflight + Sent
    /\ UNCHANGED <<received, last_body, rvars, uploads, last_doc, statuses,
                   pvars, gvars>>

\* mutant: when the credentials cannot be had the local file is removed
CredsReturnsCleanup ==
    /\ pc = "creds"
    /\ \E ok \in BOOLEAN :
          /\ fault' = IF ok THEN fault ELSE Some("credentials")
          /\ uploads' = IF ok THEN Append(uploads, filename) ELSE uploads
          /\ disk' = IF ok THEN disk ELSE "absent"
          /\ OnCredentials(ok)
    /\ inflight' = inflight + Sent
    /\ UNCHANGED <<received, last_body, rvars, writes, last_doc, statuses,
                   pvars, gvars>>

\* drive::get_google_credentials().await returns; on Ok the upload is called
\* with &filename
CredsReturns ==
    /\ pc = "creds"
    /\ \E ok \in BOOLEAN :
          /\ fault' = IF ok THEN fault ELSE Some("credentials")
          /\ uploads' = IF ok THEN Append(uploads, filename) ELSE uploads
          /\ OnCredentials(ok)
    /\ inflight' = inflight + Sent
    /\ UNCHANGED <<received, last_body, rvars, writes, disk, last_doc,
                   statuses, pvars, gvars>>

\* drive::upload_to_drive(..).await returns
UploadReturns ==
    /\ pc = "upload"
    /\ \E ok \in BOOLEAN :
          /\ fault' = IF ok THEN fault ELSE Some("upload")
          /\ OnUpload(ok)
    /\ inflight' = inflight + Sent
    /\ UNCHANGED <<received, last_body, rvars, fvars, last_doc, statuses,
                   pvars, gvars>>

\* the steps of download_crossword after its entry
Run ==
    \/ PostSendReturns
    \/ PostTextReturns
    \/ PageSendReturns
    \/ PageTextReturns
    \/ ImgSendReturns
    \/ ImgBytesReturns
    \/ CredsReturns
    \/ UploadReturns

Next == Start \/ Run

Spec == Init /\ [][Next]_vars

\* every external call returns (with a value or an error): a run that can take
\* a step eventually takes one
SpecFair == Spec /\ WF_vars(Next)

(***************************************************************************)
(* The two entries of the program: the handler of main.rs, which resolves  *)
(* the date of the event and runs its own download_crossword, and          *)
(* crossword::download_crossword called with a date.                       *)
(***************************************************************************)
LibDates ==
    {TargetDate, Date(2024, 2, 29), Date(10000, 1, 2), Date(0 - 1, 12, 31)}

Todays == {Date(2024, 3, 21), Date(2024, 12, 31)}

\* a date text of the event, and the date it denotes if it denotes one
DateText(chars, d) == [text |-> chars, means |-> d]

\* "2024-03-20", "2024-3-5", "+10000-01-02"
ValidPayloads ==
    {DateText(FormatDate(TargetDate), Some(TargetDate)),
     DateText(<<"2", "0", "2", "4", "-", "3", "-", "5">>,
              Some(Date(2024, 3, 5))),
     DateText(FormatDate(Date(10000, 1, 2)), Some(Date(10000, 1, 2)))}

\* "2024-13-20", "2024-03-32", "2024/03/20", "not-a-date" (the texts of
\* test_parse_date_invalid), "2023-02-29", "" and "2024-03-20x"
InvalidPayloads ==
    {DateText(t, None) :
        t \in {<<"2", "0", "2", "4", "-", "1", "3", "-", "2", "0">>,
               <<"2", "0", "2", "4", "-", "0", "3", "-", "3", "2">>,
               <<"2", "0", "2", "4", "/", "0", "3", "/", "2", "0">>,
               <<"n", "o", "t", "-", "a", "-", "d", "a", "t", "e">>,
               <<"2", "0", "2", "3", "-", "0", "2", "-", "2", "9">>,
               <<>>,
               FormatDate(TargetDate) \o <<"x">>}}

Payloads == {None} \cup {Some(t) : t \in ValidPayloads \cup InvalidPayloads}

InitEntry ==
    /\ Fresh
    /\ \/ /\ pc = "handler"
          /\ variant = "main"
          /\ payload \in Payloads
          /\ today \in Todays
          /\ date = None
       \/ /\ pc = "start"
          /\ variant = "crossword"
          /\ payload = None
          /\ today = TargetDate
          /\ date \in {Some(d) : d \in LibDates}

NextEntry == HandlerStart \/ Start \/ Run

SpecEntry == InitEntry /\ [][NextEntry]_vars

(***************************************************************************)
(* get_google_credentials (drive/mod.rs).                                  *)
(***************************************************************************)
\* the variable in the environment of the process: not set, set to a text,
\* or set to bytes that are no valid Unicode
Unset == [kind |-> "unset"]
SetTo(text) == [kind |-> "unicode", value |-> text]
SetNotUnicode == [kind |-> "not_unicode"]

\* env::var(name): Ok(value) only if the variable is set and valid Unicode
EnvVar(e) == IF e.kind = "unicode" THEN Some(e.value) ELSE None

\* fs::read_to_string(path): None stands for Err(_)
ReadToString(fs, path) == IF path \in DOMAIN fs THEN fs[path] ELSE None

\* GetParameterOutput: parameter() and value() are both Options
NoParameter == [parameter |-> None]
Parameter(v) == [parameter |-> Some([value |-> v])]

\* parameter.parameter().and_then(|p| p.value())
ParameterValue(output) ==
    IF output.parameter = None THEN None ELSE output.parameter[1].value

SsmAnswers ==
    {Err("get_parameter failed"),
     Ok(NoParameter),
     Ok(Parameter(None)),
     Ok(Parameter(Some(""))),
     Ok(Parameter(Some("{ssm account}")))}

EnvStates == {Unset, SetNotUnicode, SetTo("sa.json"), SetTo("")}

FileSystems ==
    {[path \in {"sa.json"} |-> c] :
        c \in {None, Some(""), Some("{file account}")}}

InitCreds ==
    /\ ParserIdle
    /\ DriverIdle
    /\ g_pc = "call"
    /\ g_env \in EnvStates
    /\ g_fs \in FileSystems
    /\ g_ssm \in SsmAnswers
    /\ g_used = <<>>
    /\ g_out = None

\* the file is read and its content or the error is returned
FromFile(path) ==
    LET content == ReadToString(g_fs, path)
    IN  /\ g_used' = Append(g_used, "file")
        /\ g_out' = IF content = None
                    THEN Some(Err("Failed to read Google service account file"))
                    ELSE Some(Ok(content[1]))
        /\ g_pc' = "ret"

\* mutant: a file that cannot be read makes the call go on to the store
GetCredentialsFallback ==
    /\ g_pc = "call"
    /\ LET path == EnvVar(g_env)
       IN  IF path # None /\ ReadToString(g_fs, path[1]) # None
           THEN FromFile(path[1])
           ELSE /\ g_pc' = "config"
                /\ g_used' = IF path # None THEN Append(g_used, "file")
                              ELSE g_used
                /\ UNCHANGED g_out
    /\ UNCHANGED <<g_env, g_fs, g_ssm, pvars, dvars>>

\* entry of get_google_credentials, up to its return or its first await
GetCredentials ==
    /\ g_pc = "call"
    /\ LET path == EnvVar(g_env)
       IN  IF path # None THEN FromFile(path[1])
           ELSE /\ g_pc' = "config"
                /\ UNCHANGED <<g_used, g_out>>
    /\ UNCHANGED <<g_env, g_fs, g_ssm, pvars, dvars>>

\* aws_config::defaults(..).load().await returns; get_parameter is sent
ConfigLoaded ==
    /\ g_pc = "config"
    /\ g_used' = Append(g_used, "ssm")
    /\ g_pc' = "send"
    /\ UNCHANGED <<g_env, g_fs, g_ssm, g_out, pvars, dvars>>

\* get_parameter()..send().await returns
ParameterReturns ==
    /\ g_pc = "send"
    /\ g_out' = IF ~g_ssm.ok THEN Some(g_ssm)
                ELSE LET value == ParameterValue(g_ssm.value)
                     IN  IF value = None
                         THEN Some(Err("Parameter value is empty"))
                         ELSE Some(Ok(value[1]))
    /\ g_pc' = "ret"
    /\ UNCHANGED <<g_env, g_fs, g_ssm, g_used, pvars, dvars>>

NextCreds == GetCredentials \/ ConfigLoaded \/ ParameterReturns

SpecCreds == InitCreds /\ [][NextCreds]_vars

(***************************************************************************)
(* What the specification says of the matcher, stated on the description   *)
(* of the input (never on the matcher's own parse of it).                  *)
(***************************************************************************)
\* the rectangle a token list denotes when it is exactly four integer tokens
SpecRect(tokens) ==
    IF Len(tokens) = 4 /\ \A i \in 1..4 : tokens[i].val # None
    THEN Some(TokenInts(tokens))
    ELSE None

Dist(a, b) == IF a >= b THEN a - b ELSE b - a

\* the four tolerance checks against the reference rectangle (0,1625,1000,2775)
SpecFits(r) ==
    /\ Dist(r[1], 0) <= 5
    /\ Dist(r[2], 1625) <= 50
    /\ Dist(r[3], 1000) <= 10
    /\ Dist(r[4], 2775) <= 50

IsRegion(e) == e.tag = "area"

\* a region whose coordinates satisfy all four tolerance checks
RegionFits(e) ==
    /\ IsRegion(e)
    /\ e.coords # None
    /\ SpecRect(e.coords[1]) # None
    /\ SpecFits(SpecRect(e.coords[1])[1])

\* a region without coordinates or whose coordinates are not four integers
RegionUnparseable(e) ==
    /\ IsRegion(e)
    /\ (e.coords = None \/ SpecRect(e.coords[1]) = None)

MatcherReturned == p_pc = "ret" /\ p_fn = "get_target_rect"

FittingIdx == {i \in 1..Len(p_in) : RegionFits(p_in[i])}
LinkedFittingIdx == {i \in FittingIdx : p_in[i].href # None}
MinOf(S) == CHOOSE i \in S : \A j \in S : i <= j

\* C6: whenever some region carrying a link reference satisfies all four
\* tolerance checks, get_target_rect returns the link reference of the earliest
\* such region in document order, whatever non-matching regions surround it.
C6_FirstMatchInDocumentOrder ==
    (MatcherReturned /\ LinkedFittingIdx # {})
        => p_out = p_in[MinOf(LinkedFittingIdx)].href

\* a non-matching region, then two matching ones: the first of the two is returned
C6_Witness ==
    /\ MatcherReturned
    /\ p_in = <<AreaFar, AreaNear, AreaExact>>
    /\ p_out = Some("test12")

IsSingle == Len(p_in) = 1 /\ p_in[1].href = Some("link")

\* C7: for a single region with a link and coordinates (x1,y1,x2,y2) the link
\* is returned if and only if |x1| <= 5, |y1-1625| <= 50, |x2-1000| <= 10 and
\* |y2-2775| <= 50, every bound inclusive; otherwise there is no match.
C7_SingleRegionInclusiveTolerance ==
    (MatcherReturned /\ IsSingle) =>
        LET r == TokenInts(p_in[1].coords[1])
        IN  /\ p_out \in {None, Some("link")}
            /\ (p_out = Some("link")) <=>
                 (/\ Dist(r[1], 0) <= 5
                  /\ Dist(r[2], 1625) <= 50
                  /\ Dist(r[3], 1000) <= 10
                  /\ Dist(r[4], 2775) <= 50)

\* a rectangle with every coordinate on its tolerance boundary matches
C7_Witness ==
    /\ MatcherReturned
    /\ p_in = <<AreaDesc(Ints4(-5, 1675, 990, 2725), Some("link"))>>
    /\ p_out = Some("link")

\* C8 (as claimed): when the earliest tolerance-satisfying region lacks a link
\* reference, get_target_rect returns no match.
C8_LinklessEarliestMeansNoMatch ==
    (MatcherReturned /\ FittingIdx # {} /\ p_in[MinOf(FittingIdx)].href = None)
        => p_out = None

\* C8 (amended): when the earliest tolerance-satisfying region lacks a link
\* reference it counts as a non-match for that region only: the result is the
\* link of the earliest tolerance-satisfying region that carries one, and no
\* match only when no tolerance-satisfying region carries a link.
C8_LinklessRegionIsSkipped ==
    (MatcherReturned /\ FittingIdx # {} /\ p_in[MinOf(FittingIdx)].href = None)
        => p_out = IF LinkedFittingIdx = {} THEN None
                   ELSE p_in[MinOf(LinkedFittingIdx)].href

\* a linkless matching region followed by a linked matching one
C8_Witness ==
    /\ MatcherReturned
    /\ p_in = <<AreaNoHref, AreaExact>>
    /\ p_out = Some("test1")

\* C9: parse_coords returns the rectangle of the four integers, in order, exactly
\* when the string is exactly four comma-separated tokens that are each an
\* integer, and no rectangle for every other string.
C9_ParseCoordsExactlyFourTokens ==
    (p_pc = "ret" /\ p_fn = "parse_coords") =>
        p_out = (IF SpecRect(p_in) = None THEN None
                 ELSE LET r == SpecRect(p_in)[1]
                      IN  Some(Rect(r[1], r[2], r[3], r[4])))

\* C10: a region without coordinates or with coordinates that are not four
\* integers never supplies the result and never stops the scan: there is no
\* match exactly when no region with a link satisfies the tolerances (so also
\* for empty markup, markup without regions, or with only such regions).
C10_UnparseableRegionsSkipped ==
    MatcherReturned =>
        /\ \A i \in 1..Len(p_in) :
              RegionUnparseable(p_in[i]) => p_out # p_in[i].href
        /\ (p_out = None) <=> (LinkedFittingIdx = {})

\* unparseable and coordinate-less regions first, a matching region after them
C10_Witness ==
    /\ MatcherReturned
    /\ p_in = <<AreaInvalid, AreaNoCoords, AreaExact>>
    /\ p_out = Some("test1")

(***************************************************************************)
(* Properties of the page-search driver.                                   *)
(***************************************************************************)
Returned == pc = "done" /\ result # None
ReturnedOk == Returned /\ result[1].ok
ReturnedErr == Returned /\ ~result[1].ok

\* a discovery body in which some region with a link satisfies the tolerances
BodyMatches(body) ==
    \E i \in 1..Len(body) : RegionFits(body[i]) /\ body[i].href # None

ReceivedPages == {received[i] : i \in 1..Len(received)}

\* C1: discovery POSTs go to pages 1, 2, 3, ... in that order and never past
\* page 20, no page is requested twice, at most one request is outstanding, and
\* page k+1 is requested only once the body of page k was received and the
\* matcher returned no match on it.
C1_SequentialDiscovery ==
    /\ Len(posts) <= 20
    /\ \A k \in 1..Len(posts) : posts[k].page = k
    /\ inflight \in {0, 1}
    /\ (inflight = 1) => pc \in {"post_send", "page_send", "img_send"}
    /\ \A k \in 1..Len(posts) :
          k > 1 => /\ (k - 1) \in ReceivedPages
                   /\ (k - 1) \in nomatch
    /\ \A k \in 1..Len(received) : received[k] = k
    /\ Len(received) <= Len(posts)

\* the twentieth discovery request is outstanding after nineteen no-matches
C1_Witness ==
    /\ Len(posts) = 20
    /\ inflight = 1
    /\ pc = "post_send"
    /\ nomatch = 1..19

\* C2: once the body of page p matches, p discovery requests have been issued
\* and none is issued afterwards: in every later state of the run, successful
\* or not, the POSTs are exactly those of pages 1..p.
C2_StopAtFirstMatch ==
    (last_body # None /\ BodyMatches(last_body[1])) =>
        /\ href # None
        /\ page = Len(received)
        /\ Len(posts) = page
        /\ \A k \in 1..Len(posts) : posts[k].page <= page
        /\ nomatch = 1..(page - 1)

\* page 5 matched and the upload failed: five discovery requests in the run
C2_Witness ==
    /\ ReturnedErr
    /\ fault = Some("upload")
    /\ page = 5
    /\ Len(posts) = 5
    /\ last_body = Some(<<AreaExact>>)

\* C3: "Could not find crossword on any page" is returned if and only if all
\* 20 discovery bodies were received and none matched; in that run 20 POSTs
\* and no GET were issued and no write, credential resolution or upload
\* was attempted.
C3_ExhaustedIffTwentyNoMatches ==
    /\ (Returned /\ result[1] = NotFoundError)
          <=> (Len(received) = 20 /\ nomatch = 1..20)
    /\ (Returned /\ result[1] = NotFoundError) =>
          /\ Len(posts) = 20
          /\ gets = <<>>
          /\ steps = <<>>
          /\ href = None
          /\ fault = None
          /\ ~BodyMatches(last_body[1])

C3_Witness ==
    /\ Returned
    /\ result[1] = NotFoundError
    /\ Len(posts) = 20

DiscoveryFaults == {"discovery_send", "discovery_body"}
PageFaults == {"page_send", "page_body", "no_image", "no_src"}
LateFaults == {"image_send", "image_body", "write", "credentials", "upload"}

\* C4: a failure of any step of a page attempt ends the run at once with an
\* error other than the exhausted-search one; no request follows it (none for
\* the next page, no retry of the failed one), and the scan only ever advanced
\* past pages on which the matcher returned no match.
C4_FailureAbortsRun ==
    /\ fault # None =>
          /\ ReturnedErr
          /\ result[1] # NotFoundError
          /\ inflight = 0
          /\ Len(posts) = page
          /\ \A k \in 1..Len(posts) : posts[k].page = k
          /\ page \notin nomatch
          /\ fault[1] \in DiscoveryFaults => gets = <<>>
          /\ fault[1] \in PageFaults => Len(gets) = 1
          /\ fault[1] \in LateFaults => Len(gets) = 2 /\ gets[1] # gets[2]
    /\ (ReturnedErr /\ result[1] # NotFoundError) => fault # None
    /\ nomatch = 1..(Len(posts) - 1) \cup (IF href = None /\ fault = None
                                             THEN ReceivedPages ELSE {})

\* page 5 matched and the crossword page has no image in the container
C4_Witness ==
    /\ ReturnedErr
    /\ fault = Some("no_image")
    /\ result[1] = Err("Could not find crossword image")
    /\ page = 5
    /\ Len(posts) = 5
    /\ Len(gets) = 1

IsPrefix(a, b) == Len(a) <= Len(b) /\ a = SubSeq(b, 1, Len(a))

\* C5: after a match the steps happen in one fixed order (page GET, extraction,
\* image GET, write, credentials, upload, return), each only while no earlier
\* one has failed; Ok is returned only with the local path, after the upload
\* succeeded, and with exactly two GETs issued.
C5_MatchedBranchInOrder ==
    /\ IsPrefix(steps, FullSteps)
    /\ (steps # <<>>) <=> (href # None)
    /\ Len(gets) = Cardinality({i \in 1..Len(steps) :
                                   steps[i] \in {"get_page", "get_image"}})
    /\ (pc # "done") => fault = None
    /\ ReturnedOk =>
          /\ result[1].value = "/tmp/crossword_2024-03-20.jpg"
          /\ steps = FullSteps
          /\ fault = None
          /\ Len(gets) = 2
          /\ inflight = 0

C5_Witness ==
    /\ ReturnedOk
    /\ steps = FullSteps
    /\ gets = <<"https://www.ehitavada.com/test1",
                "https://www.ehitavada.com/images/foo.jpg">>

(***************************************************************************)
(* The local path (crossword/mod.rs, lines 99-112).                        *)
(***************************************************************************)
\* the date as YYYY-MM-DD, written from the calendar fields
IsoYear(y) ==
    LET a == IF y < 0 THEN 0 - y ELSE y
        digits == <<DigitChars[((a \div 1000) % 10) + 1],
                    DigitChars[((a \div 100) % 10) + 1],
                    DigitChars[((a \div 10) % 10) + 1],
                    DigitChars[(a % 10) + 1]>>
        more == IF a > 9999 THEN DecNat(a \div 10000) ELSE <<>>
        sign == IF y < 0 THEN <<"-">> ELSE IF y > 9999 THEN <<"+">> ELSE <<>>
    IN  sign \o more \o digits

TwoDigits(n) == <<DigitChars[(n \div 10) + 1], DigitChars[(n % 10) + 1]>>

IsoDate(d) ==
    IsoYear(d.y) \o <<"-">> \o TwoDigits(d.m) \o <<"-">> \o TwoDigits(d.d)

LocalPath(d) == "/tmp/crossword_" \o Str(IsoDate(d)) \o ".jpg"

\* C11: the path download_crossword returns on success is
\* /tmp/crossword_<YYYY-MM-DD>.jpg of the target date alone; the image was
\* written to that path, that path was handed to the upload, and neither the
\* page that matched nor any response changes it.
C11_PathFromDateAlone ==
    /\ \A k \in 1..Len(writes) : writes[k] = LocalPath(date[1])
    /\ \A k \in 1..Len(uploads) : uploads[k] = LocalPath(date[1])
    /\ ReturnedOk =>
          /\ result[1].value = LocalPath(date[1])
          /\ writes = <<result[1].value>>
          /\ uploads = <<result[1].value>>

\* a success on the third page, for a date other than the one of the tests
C11_Witness ==
    /\ ReturnedOk
    /\ variant = "crossword"
    /\ date = Some(Date(2024, 2, 29))
    /\ page = 3
    /\ result[1].value = "/tmp/crossword_2024-02-29.jpg"
    /\ last_doc = Some(<<ImgOut(Some("images/other.jpg")),
                         ImgIn(Some("images/foo.jpg")),
                         ImgIn(Some("images/bar.jpg"))>>)

(***************************************************************************)
(* The handler (main.rs, lines 295-308).                                   *)
(***************************************************************************)
\* the date the event asks for
AskedDate == IF payload = None THEN Some(today) ELSE payload[1].means

\* C12: the handler resolves the date before any search step: without a date
\* text it is the local date; a text that is no valid date makes the handler
\* fail at once, with no request issued; a successful run returns the
\* confirmation message with the path the search returned.
C12_HandlerResolvesDateFirst ==
    (variant = "main" /\ pc # "handler") =>
        /\ date = AskedDate
        /\ AskedDate = None =>
              /\ pc = "done"
              /\ handler_result # None /\ ~handler_result[1].ok
              /\ posts = <<>> /\ gets = <<>> /\ inflight = 0
              /\ writes = <<>> /\ uploads = <<>>
        /\ ReturnedOk =>
              handler_result = Some(Ok(
                  [message |-> "Crossword downloaded successfully",
                   filename |-> LocalPath(AskedDate[1])]))

\* the handler has failed on "2024-13-20" without a request
C12_Witness ==
    /\ variant = "main"
    /\ payload # None
    /\ Str(payload[1].text) = "2024-13-20"
    /\ pc = "done"
    /\ ReturnedErr
    /\ posts = <<>>

(***************************************************************************)
(* The driver as a state machine (crossword/mod.rs, lines 27-119).         *)
(***************************************************************************)
\* SCANNING: in the loop, no page has matched; MATCHED: in the branch of the
\* page that matched; then the three terminal outcomes
Phase ==
    IF pc \in {"start", "post_send", "post_text"} THEN "SCANNING"
    ELSE IF pc # "done" THEN "MATCHED"
    ELSE IF result[1].ok THEN "SUCCESS"
    ELSE IF result[1] = NotFoundError THEN "EXHAUSTED"
    ELSE "ABORTED"

PhaseStep ==
    /\ Phase = "SCANNING" =>
          \/ Phase' = "SCANNING" /\ page' \in {page, page + 1}
          \/ Phase' \in {"MATCHED", "EXHAUSTED", "ABORTED"}
    /\ Phase = "MATCHED" => Phase' \in {"MATCHED", "SUCCESS", "ABORTED"}
    /\ Phase \in {"SUCCESS", "EXHAUSTED", "ABORTED"} => FALSE

\* C13: when every external call returns, a run of download_crossword ends,
\* with exactly one of success, abort and exhausted, after at most 20 discovery
\* requests; SCANNING moves only to SCANNING of the same or the next page, to
\* MATCHED or to a terminal outcome, MATCHED never moves back to SCANNING, and
\* a terminal outcome is final.
C13_ThreeStateMachineTerminates ==
    /\ <>(pc = "done")
    /\ [](Len(posts) <= 20)
    /\ [](pc = "done" => result # None)
    /\ [][PhaseStep]_vars

\* a run has ended in success on the twentieth page
C13_Witness ==
    /\ ReturnedOk
    /\ Phase = "SUCCESS"
    /\ Len(posts) = 20
    /\ page = 20

(***************************************************************************)
(* Status codes (crossword/mod.rs, lines 49-61 and 92-102).                *)
(***************************************************************************)
\* a response with this status is received
Response(status) ==
    PostResponse(status) \/ PageResponse(status) \/ ImgResponse(status)

PcAfterSend == {"post_text", "page_text", "img_bytes", "done"}

\* what receiving a response does is the same for every status
StatusBlindStep ==
    \A s1 \in StatusCodes, s2 \in StatusCodes :
        /\ ENABLED Response(s1) <=> ENABLED Response(s2)
        /\ \A q \in PcAfterSend :
              (ENABLED (Response(s1) /\ pc' = q))
                  <=> (ENABLED (Response(s2) /\ pc' = q))
        /\ ~ENABLED (Response(s1) /\ pc' \notin PcAfterSend)
        /\ ~ENABLED (Response(s1)
                        /\ <<page, result, posts, gets, received, nomatch,
                             last_body, href, steps, fault, rvars, fvars,
                             last_doc>>'
                           # <<page, result, posts, gets, received, nomatch,
                               last_body, href, steps, fault, rvars, fvars,
                               last_doc>>)
        /\ ~ENABLED (Response(s1) /\ inflight' # inflight - 1)

\* C14: status codes never influence the control flow: receiving a response
\* has the same effect whatever its status; a run in which error statuses were
\* received aborts only on a failure of an external call or of the
\* extraction, advances after a discovery body without a matching region, and
\* ends in success when a body matched.
C14_StatusCodesIgnored ==
    /\ StatusBlindStep
    /\ (statuses # {} /\ pc = "done") =>
          /\ result # None
          /\ ReturnedErr /\ result[1] # NotFoundError => fault # None
          /\ fault = None =>
                /\ last_body # None
                /\ ReturnedOk <=> BodyMatches(last_body[1])
                /\ ~BodyMatches(last_body[1]) =>
                      result[1] = NotFoundError /\ nomatch = 1..20
    /\ (statuses # {} /\ pc # "done" /\ last_body # None
            /\ pc \in {"post_send", "post_text"}) =>
          /\ ~BodyMatches(last_body[1])
          /\ page = Len(received) + 1

\* a success on the first page although the discovery, the page and the image
\* response all came with an error status
C14_Witness ==
    /\ ReturnedOk
    /\ page = 1
    /\ statuses = {"discovery", "page", "image"}
    /\ writes = <<filename>>
    /\ uploads = <<filename>>

(***************************************************************************)
(* The local file (crossword/mod.rs, lines 99-112).                        *)
(***************************************************************************)
\* failures that end the run before img_response.bytes() has returned Ok
EarlyFaults == DiscoveryFaults \cup PageFaults \cup {"image_send", "image_body"}

\* C15: fs::write is called at most once in a run and only after the image
\* bytes were fetched; a run that ends exhausted or aborts before that leaves
\* no local file; when the credentials or the upload fail after the write,
\* the run ends in failure and the written file stays.
C15_SingleWriteNoCleanup ==
    /\ Len(writes) <= 1
    /\ disk # "absent" => writes # <<>>
    /\ writes # <<>> =>
          /\ Len(gets) = 2
          /\ pc \in {"creds", "upload", "done"}
          /\ fault = None \/ fault[1] \in {"write", "credentials", "upload"}
    /\ (pc = "done" /\ result = Some(NotFoundError)) =>
          writes = <<>> /\ disk = "absent"
    /\ (fault # None /\ fault[1] \in EarlyFaults) =>
          writes = <<>> /\ disk = "absent"
    /\ (fault # None /\ fault[1] \in {"credentials", "upload"}) =>
          /\ ReturnedErr
          /\ writes = <<filename>>
          /\ disk = "complete"
    /\ ReturnedOk => disk = "complete"

\* the upload has failed after the file was written: the file is still there
C15_Witness ==
    /\ fault = Some("upload")
    /\ ReturnedErr
    /\ writes = <<filename>>
    /\ disk = "complete"

(***************************************************************************)
(* The source of the credentials (drive/mod.rs, lines 12-38).              *)
(***************************************************************************)
IsSet == g_env.kind # "unset"

\* the value of the parameter is missing: no parameter, or one without value
ValueMissing ==
    g_ssm.ok /\ (g_ssm.value.parameter = None
                    \/ g_ssm.value.parameter[1].value = None)

FileOnly ==
    /\ g_used = <<"file">>
    /\ g_out = IF g_fs["sa.json"] = None \/ g_env.value # "sa.json"
               THEN Some(Err("Failed to read Google service account file"))
               ELSE Some(Ok(g_fs["sa.json"][1]))

StoreOnly ==
    /\ g_used = <<"ssm">>
    /\ ValueMissing => ~g_out[1].ok
    /\ ~g_ssm.ok => ~g_out[1].ok
    /\ (g_ssm.ok /\ ~ValueMissing) =>
          g_out = Some(Ok(g_ssm.value.parameter[1].value[1]))

\* C16, as claimed: whenever the variable is set the result is the content of
\* the file or a failure and the parameter store is never consulted; when it
\* is not set the store is consulted and a missing value is a failure.
C16_SetMeansFileOnly ==
    g_pc = "ret" => IF IsSet THEN FileOnly ELSE StoreOnly

\* C16, amended: the file is the source exactly when the variable is set to
\* valid Unicode text; when it is not set, or set to something that is not
\* valid Unicode, the parameter store is the one source consulted, and a
\* missing parameter or a parameter without a value is a failure (an empty
\* text as value is returned as it is).
C16_OneSourceByEnvVar ==
    /\ Len(g_used) <= 1
    /\ g_pc = "ret" =>
          /\ g_out # None
          /\ IF g_env.kind = "unicode" THEN FileOnly ELSE StoreOnly

\* the variable names a file that cannot be read: failure, store not asked
C16_Witness ==
    /\ g_pc = "ret"
    /\ g_env = SetTo("sa.json")
    /\ g_fs["sa.json"] = None
    /\ g_ssm = Ok(Parameter(Some("{ssm account}")))
    /\ g_used = <<"file">>
    /\ ~g_out[1].ok

(***************************************************************************)
(* The URLs requested (crossword/mod.rs, lines 37-96).                     *)
(***************************************************************************)
\* the link reference of the earliest region of a body that fits and has one
FirstLink(body) ==
    LET S == {i \in 1..Len(body) : RegionFits(body[i]) /\ body[i].href # None}
    IN  body[CHOOSE i \in S : \A j \in S : i <= j].href[1]

\* the src of the first image inside .slices_container of a page
FirstImageSrc(document) ==
    LET S == {i \in 1..Len(document) :
                 document[i].tag = "img" /\ document[i].container}
    IN  document[CHOOSE i \in S : \A j \in S : i <= j].src[1]

\* C17: every discovery POST goes to https://www.ehitavada.com/val.php; the
\* first GET of a run goes to https://www.ehitavada.com/ followed by the link
\* reference the matcher returned for the matching page, the second GET to
\* https://www.ehitavada.com/ followed by the src of the first image in
\* .slices_container of the response to the first GET; there is no other
\* request, and nothing of an earlier, non-matching page enters a URL.
C17_RequestsTargetFixedSite ==
    /\ \A k \in 1..Len(posts) :
          posts[k].url = "https://www.ehitavada.com/val.php"
    /\ Len(gets) <= 2
    /\ Len(gets) >= 1 =>
          /\ received[Len(received)] = page
          /\ BodyMatches(last_body[1])
          /\ href = Some(FirstLink(last_body[1]))
          /\ gets[1] = "https://www.ehitavada.com/" \o FirstLink(last_body[1])
    /\ Len(gets) = 2 =>
          gets[2] = "https://www.ehitavada.com/" \o FirstImageSrc(last_doc[1])

\* after two pages without a match the third page gave an absolute link
\* reference; both GETs have been sent
C17_Witness ==
    /\ page = 3
    /\ nomatch = {1, 2}
    /\ gets = <<"https://www.ehitavada.com/https://example.org/x",
                "https://www.ehitavada.com/images/foo.jpg">>
    /\ last_doc = Some(<<ImgOut(Some("images/other.jpg")),
                         ImgIn(Some("images/foo.jpg")),
                         ImgIn(Some("images/bar.jpg"))>>)

(***************************************************************************)
(* The discovery request body (crossword/mod.rs, lines 28-46).             *)
(***************************************************************************)
\* the year as the path segment may carry it: its digits (four at least), with
\* or without the sign chrono writes outside 0..9999
YearSegments(y) ==
    {Str(IsoYear(y)),
     Str(ZeroPad(DecNat(IF y < 0 THEN 0 - y ELSE y), 4))}

\* the image URL template of page p for the date d, as the claim describes it
Templates(d, p) ==
    {"https%3A%2F%2Fehitavada.com%2Fencyc%2F6%2F" \o yyyy
         \o Str(TwoDigits(d.m)) \o Str(TwoDigits(d.d))
         \o "%2FMpage_" \o Str(DecNat(p)) \o ".jpg" : yyyy \in YearSegments(d.y)}

\* C18, as claimed: for every date a run can have (years outside 0..9999
\* included) and every page p, the body of the discovery request carries the
\* template with the date's year, month and day and Mpage_p.jpg, the date as
\* YYYY-MM-DD and the same p as page parameter.
C18_BodyCarriesDateAndPage ==
    \A k \in 1..Len(posts) :
        /\ posts[k].data.get_mapping_coords \in Templates(date[1], k)
        /\ posts[k].data.get_mapping_coords_date = Str(IsoDate(date[1]))
        /\ posts[k].data.get_mapping_coords_page = Str(DecNat(k))

(***************************************************************************)
(* The tolerance checks over the i32 range (parser/mod.rs, lines 37-42).   *)
(***************************************************************************)
\* the deviation of v from the reference is within the tolerance, in the
\* integers (no difference is formed, so nothing can wrap)
TrueWithin(v, reference, tolerance) ==
    v >= reference - tolerance /\ v <= reference + tolerance

\* the coordinates the one area of the input denotes
WideCoords == TokenInts(p_in[1].coords[1])

TrulyFits ==
    /\ TrueWithin(WideCoords[1], 0, 5)
    /\ TrueWithin(WideCoords[2], 1625, 50)
    /\ TrueWithin(WideCoords[3], 1000, 10)
    /\ TrueWithin(WideCoords[4], 2775, 50)

\* C19, as claimed: for coordinates anywhere in the i32 range the checks of
\* get_target_rect neither fail nor wrap into acceptance: the call returns,
\* and it accepts the region only if all four true deviations are within the
\* tolerances.
C19_ChecksCorrectOnWholeRange ==
    (p_pc = "ret" /\ p_fn = "get_target_rect") =>
        /\ ~p_panic
        /\ p_out # None => TrulyFits

(***************************************************************************)
(* The two copies of the matcher (main.rs 166-194, parser/mod.rs 24-54).   *)
(***************************************************************************)
\* no region of the input has 1 <= |x1| <= 5
NoNearZeroX1 ==
    \A i \in 1..Len(p_in) :
        (p_in[i].tag = "area" /\ p_in[i].coords # None
            /\ Len(TokenInts(p_in[i].coords[1])) = 4) =>
           LET x1 == TokenInts(p_in[i].coords[1])[1]
           IN  x1 = 0 \/ x1 < 0 - 5 \/ x1 > 5

\* C20, as claimed: on every markup in which no region has 1 <= |x1| <= 5 the
\* matcher of main.rs and the matcher of parser/mod.rs give the same result.
C20_MatcherVariantsAgree ==
    (p_pc = "ret" /\ p_fn \in {"get_target_rect", "main_get_target_rect"}
        /\ NoNearZeroX1) =>
        LET other == IF p_fn = "get_target_rect"
                     THEN OutcomeMain(p_checks, RenderHtml(p_in))
                     ELSE Outcome(p_checks, RenderHtml(p_in))
        IN  p_out = other.out /\ p_panic = other.panic

====
